---- MODULE Spec2Model ----
(***************************************************************************)
(* A model of the pcopy server runtime (src/server.go): the clipboard      *)
(* store (handleClipboardGet, handleClipboardPut, writePutOutput), the     *)
(* sweep (updateStatsAndExpire), the visitor registry and rate limiter     *)
(* (getVisitor, limit), the authorization guard (authorize,                *)
(* authorizeHmac) and the router (routeList, handle).                      *)
(*                                                                         *)
(* All times are in milliseconds.  Each specification advances the clock   *)
(* by the step that makes its cases happen: the store by minutes, the      *)
(* authorization guard by half minutes, the rate limiter by quarter        *)
(* seconds.                                                                *)
(***************************************************************************)
EXTENDS Integers, Sequences, FiniteSets, TLC

VARIABLES
    now,            \* wall clock, milliseconds
    config,         \* s.config: the policy the server was started with
    files,          \* ClipboardDir: content file of each identifier
    metas,          \* ClipboardDir: "<id>:meta" file of each identifier
    countLimiter,   \* s.countLimiter
    sizeLimiter,    \* s.sizeLimiter
    visitors,       \* s.visitors: address -> visitor, or NoVisitor
    resp,           \* the last operation and what it put on the wire
    stream,         \* the streaming write blocked on its handoff object
    workload,       \* the requests the clients of this run send
    history,        \* per identifier: the body of the successful non-streaming
                    \* write that made its present content, or Drained
    auth,           \* the authorization guard's last decision
    admitted,       \* times of the requests the rate limiter let through
                    \* during the last second
    routed,         \* the last request handle() dispatched, and to which route
    mutex,          \* s.Mutex: "" when free, else its holder
    janitor,        \* serverManager's position in updateStatsAndExpire
    routes          \* s.routes, and each request goroutine's position in routeList

vars == <<now, config, files, metas, countLimiter, sizeLimiter, visitors,
          resp, stream, workload, history, auth, admitted, routed, mutex, janitor, routes>>

----------------------------------------------------------------------------
(* Program constants (src/server.go:32-60) and time units.                 *)

Second == 1000
Minute == 60 * Second

managerTickerInterval == 30 * Second
defaultMaxAuthAge == Minute
visitorCountLimit == 10
visitorRequestsPerSecond == 2
visitorRequestsPerSecondBurst == 5
visitorExpungeAfter == 3 * Minute

reservedFiles == {"help", "version", "info", "verify", "static", "robots.txt", "favicon.ico"}

modeReadWrite == "rw"
modeReadOnly == "ro"

StatusOK == 200
StatusFound == 302
StatusPartialContent == 206
StatusBadRequest == 400
StatusUnauthorized == 401
StatusNotFound == 404
StatusMethodNotAllowed == 405
StatusRequestEntityTooLarge == 413
StatusTooManyRequests == 429
StatusInternalServerError == 500

----------------------------------------------------------------------------
(* Bounds of the model.                                                    *)

\* The store's clock runs 0 .. MaxTicks minutes.
MaxTicks == 2
\* Failed requests may drive the global count limiter at most this far
\* below zero (Sub without a matching Add).
MaxDrift == 1

----------------------------------------------------------------------------
(* ResourceLimiter: a counter with an optional cap (0 = no cap).           *)

newLimiter(limit) == [value |-> 0, limit |-> limit]

\* Whether Add(n) succeeds.
LimiterFits(l, n) == l.limit = 0 \/ l.value + n <= l.limit

\* Add(n): fails without mutation if the cap would be exceeded.
LimiterAdd(l, n) == IF LimiterFits(l, n) THEN [l EXCEPT !.value = @ + n] ELSE l

LimiterSub(l, n) == [l EXCEPT !.value = @ - n]

LimiterSet(l, n) == [l EXCEPT !.value = n]

----------------------------------------------------------------------------
(* The response writer.  A body is a sequence of chunks <<kind, id, n, m>>.*)

Chunk(kind, id, n, m) == <<kind, id, n, m>>

ByteChunk(b) == Chunk("byte", "", b, 0)

TextChunk(s) == Chunk(s, "", 0, 0)

NoHeader == Chunk("", "", 0, 0)

\* http.StatusText(code): the standard phrase, one chunk per code.
StatusText(code) == Chunk("status", "", code, 0)

\* A fresh http.ResponseWriter: status 0 = header not yet written.
NewWriter == [status |-> 0, url |-> NoHeader, expires |-> NoHeader, body |-> <<>>]

\* w.WriteHeader(code): only the first call reaches the wire.
WriteHeader(w, code) == IF w.status = 0 THEN [w EXCEPT !.status = code] ELSE w

\* w.Write(chunk): writes the 200 header first if none was written.
Write(w, chunk) == [WriteHeader(w, StatusOK) EXCEPT !.body = Append(@, chunk)]

\* s.fail: status line and status phrase; no internal detail.
fail(w, code) == Write(WriteHeader(w, code), StatusText(code))

\* handle(): a handler's error becomes fail(); a nil return with nothing
\* written is an implicit 200.
Finish(w, err) == IF err # 0 THEN fail(w, err) ELSE WriteHeader(w, StatusOK)

----------------------------------------------------------------------------
(* The storage directory and the requests.                                 *)

\* Identifiers clients ask for; each matches the route pattern
\* (?i)[a-z0-9][-_.a-z0-9]{1,100}.  "help" is reserved, "Help" differs from
\* it in letter case only.
Ids == {"abc", "xyz", "Help", "help"}

\* strings.ToLower on the identifiers of the model.
ToLower(id) == IF id = "Help" THEN "help" ELSE id

Addrs == {"10.0.0.1"}

\* Request bodies: sequences of bytes.  NoBody is r.Body == nil.
NoBody == <<-1>>
Bodies == {<<1>>, <<1, 2>>, <<2, 2, 1>>}

NoFile == [kind |-> "none", data |-> <<>>, mtime |-> 0]
NoMeta == [mode |-> "", expires |-> 0]

RegularFile(data, t) == [kind |-> "file", data |-> data, mtime |-> t]
NamedPipe(t) == [kind |-> "fifo", data |-> <<>>, mtime |-> t]

NoVisitor == [exists |-> FALSE, count |-> 0, tokens |-> 0, last |-> 0, lastSeen |-> 0]

\* util.go parseDuration on the X-TTL / t= values of the model; -1 = error.
parseDuration(s) ==
    CASE s = "1m" -> Minute
      [] s = "3m" -> 3 * Minute
      [] s = "0s" -> 0
      [] OTHER -> -1

\* The store as one value, so that handlers compose.
Store == [files |-> files, metas |-> metas, count |-> countLimiter,
          size |-> sizeLimiter, visitors |-> visitors]

RECURSIVE SumSizes(_, _)
SumSizes(fs, ids) ==
    IF ids = {} THEN 0
    ELSE LET id == CHOOSE x \in ids : TRUE
         IN Len(fs[id].data) + SumSizes(fs, ids \ {id})

\* os.Stat(file) succeeds.
Exists(st, id) == st.files[id].kind # "none"

----------------------------------------------------------------------------
(* VisitorRegistry.                                                        *)

\* The visitor created by getVisitor: a put-count limiter at 0, a full
\* token bucket (in thousandths of a token), lastSeen = now.
NewVisitor(t) ==
    [exists |-> TRUE, count |-> 0,
     tokens |-> visitorRequestsPerSecondBurst * 1000, last |-> t, lastSeen |-> t]

\* getVisitor that hands out a new visitor on every call.
getVisitorAnew(vs, ip, t) == [vs EXCEPT ![ip] = NewVisitor(t)]

\* getVisitor: create if absent, else refresh lastSeen.
getVisitor(vs, ip, t) ==
    IF ~vs[ip].exists THEN [vs EXCEPT ![ip] = NewVisitor(t)]
    ELSE [vs EXCEPT ![ip].lastSeen = t]

Min(a, b) == IF a < b THEN a ELSE b

\* The tokens (in thousandths) of a visitor's bucket at time t: refilled
\* continuously at visitorRequestsPerSecond, capped at the burst.
Tokens(v, t) ==
    Min(visitorRequestsPerSecondBurst * 1000,
        v.tokens + (t - v.last) * visitorRequestsPerSecond)

\* rateLimiter.Allow(): takes one token if there is one; never waits.
Allow(v, t) ==
    IF Tokens(v, t) >= 1000
    THEN [ok |-> TRUE, v |-> [v EXCEPT !.tokens = Tokens(v, t) - 1000, !.last = t]]
    ELSE [ok |-> FALSE, v |-> v]

\* limit: the visitor of the address, then its rate limiter.
limit(vs, ip, t) ==
    LET seen == getVisitor(vs, ip, t)
        a == Allow(seen[ip], t)
    IN  [err |-> IF a.ok THEN 0 ELSE StatusTooManyRequests,
         visitors |-> [seen EXCEPT ![ip] = a.v]]

----------------------------------------------------------------------------
(* AuthGuard: authorize, authorizeHmac, authorizeBasic.                    *)

\* HMAC-SHA256 under key of "<timestamp>:<ttl>:<method>:<path>": two
\* signatures are equal iff key and data are.
Hmac(key, timestamp, ttlSecs, method, path) ==
    <<key, timestamp, ttlSecs, method, path>>

\* The key derived from a password and a salt.
DeriveKey(password, salt) == password \o "$" \o salt

\* No Authorization header, no auth query parameter.
NoCred ==
    [scheme |-> "", timestamp |-> 0, ttlSecs |-> 0, hash |-> Hmac("", 0, 0, "", ""),
     decodes |-> TRUE, userPass |-> <<>>]

\* "HMAC <timestamp> <ttl> <base64 of hash>".
HmacCred(timestamp, ttlSecs, hash) ==
    [NoCred EXCEPT !.scheme = "HMAC", !.timestamp = timestamp,
                   !.ttlSecs = ttlSecs, !.hash = hash]

\* "Basic <base64 of the colon-separated parts>".
BasicCred(parts) == [NoCred EXCEPT !.scheme = "Basic", !.userPass = parts]

\* The window a signed credential is good for.
MaxAge(ttlSecs) == IF ttlSecs > 0 THEN Second * ttlSecs ELSE defaultMaxAuthAge

\* authorizeHmac that compares the hash and forgets the age.
authorizeHmacAnyAge(r, m, t) ==
    IF ~m.decodes THEN StatusUnauthorized
    ELSE IF m.hash # Hmac(config.Key.Bytes, m.timestamp, m.ttlSecs, r.method, r.path)
    THEN StatusUnauthorized
    ELSE 0

\* authorizeHmac: 0 for nil, else the error's status.
authorizeHmac(r, m, t) ==
    IF ~m.decodes THEN StatusUnauthorized
    ELSE IF m.hash # Hmac(config.Key.Bytes, m.timestamp, m.ttlSecs, r.method, r.path)
    THEN StatusUnauthorized
    ELSE IF MaxAge(m.ttlSecs) > 0 /\ t - m.timestamp * Second > MaxAge(m.ttlSecs)
    THEN StatusUnauthorized
    ELSE 0

authorizeBasic(r, m) ==
    IF ~m.decodes THEN StatusUnauthorized
    ELSE IF Len(m.userPass) # 2 THEN StatusUnauthorized
    ELSE IF DeriveKey(m.userPass[2], config.Key.Salt) # config.Key.Bytes
    THEN StatusUnauthorized
    ELSE 0

\* s.config.Key == nil.
NoKey == [Bytes |-> "", Salt |-> ""]

\* authorize: open server, else the query parameter over the header, HMAC
\* over Basic.
authorize(r, t) ==
    IF config.Key = NoKey THEN 0
    ELSE IF r.queryAuth = "garbled" THEN StatusUnauthorized
    ELSE LET a == IF r.queryAuth = "ok" THEN r.query ELSE r.header
         IN  IF a.scheme = "HMAC" THEN authorizeHmac(r, a, t)
             ELSE IF a.scheme = "Basic" THEN authorizeBasic(r, a)
             ELSE StatusUnauthorized

----------------------------------------------------------------------------
(* Janitor: updateStatsAndExpire, maybeExpire, isExpired.                  *)

\* readMetaFile succeeds.
MetaReadable(st, id) == st.metas[id] # NoMeta

isExpired(st, id, t) ==
    IF MetaReadable(st, id)
    THEN IF st.metas[id].expires > 0
         THEN t - st.metas[id].expires * Second > 0
         ELSE FALSE
    ELSE ~(config.FileExpireAfter = 0
           \/ t - st.files[id].mtime <= config.FileExpireAfter)

\* maybeExpire for one listed file: what is left of the entry, and whether
\* the call returns true.  fault: the os.Remove that fails in this sweep.
maybeExpire(st, id, t, fault) ==
    IF ~isExpired(st, id, t)
    THEN [file |-> st.files[id], meta |-> st.metas[id], removed |-> FALSE]
    ELSE IF fault = "rmfile"
    THEN [file |-> st.files[id], meta |-> st.metas[id], removed |-> FALSE]
    ELSE IF fault = "rmmeta" \/ ~MetaReadable(st, id)
    THEN [file |-> NoFile, meta |-> st.metas[id], removed |-> FALSE]
    ELSE [file |-> NoFile, meta |-> NoMeta, removed |-> TRUE]

\* A sweep that sets the limiters even when the directory read failed.
updateStatsAndExpireAnyway(st, t, fault) ==
    LET kept == [ip \in Addrs |->
                    IF st.visitors[ip].exists
                       /\ t - st.visitors[ip].lastSeen > visitorExpungeAfter
                    THEN NoVisitor ELSE st.visitors[ip]]
    IN  IF fault = "readdir"
        THEN [st EXCEPT !.visitors = kept, !.count = LimiterSet(st.count, 0),
                        !.size = LimiterSet(st.size, 0)]
        ELSE LET listed == {id \in Ids : Exists(st, id)}
                 out == [id \in listed |-> maybeExpire(st, id, t, fault)]
                 counted == {id \in listed : ~out[id].removed}
             IN  [files |-> [id \in Ids |-> IF id \in listed THEN out[id].file
                                            ELSE st.files[id]],
                  metas |-> [id \in Ids |-> IF id \in listed THEN out[id].meta
                                            ELSE st.metas[id]],
                  count |-> LimiterSet(st.count, Cardinality(counted)),
                  size |-> LimiterSet(st.size, SumSizes(st.files, counted)),
                  visitors |-> kept]

\* One sweep.  fault: "readdir" (ioutil.ReadDir fails), "rmfile" or "rmmeta"
\* (that os.Remove of maybeExpire fails), or "none".
updateStatsAndExpire(st, t, fault) ==
    LET kept == [ip \in Addrs |->
                    IF st.visitors[ip].exists
                       /\ t - st.visitors[ip].lastSeen > visitorExpungeAfter
                    THEN NoVisitor ELSE st.visitors[ip]]
    IN  IF fault = "readdir" THEN [st EXCEPT !.visitors = kept]
        ELSE LET listed == {id \in Ids : Exists(st, id)}
                 out == [id \in listed |-> maybeExpire(st, id, t, fault)]
                 counted == {id \in listed : ~out[id].removed}
             IN  [files |-> [id \in Ids |-> IF id \in listed THEN out[id].file
                                            ELSE st.files[id]],
                  metas |-> [id \in Ids |-> IF id \in listed THEN out[id].meta
                                            ELSE st.metas[id]],
                  count |-> LimiterSet(st.count, Cardinality(counted)),
                  size |-> LimiterSet(st.size, SumSizes(st.files, counted)),
                  visitors |-> kept]

----------------------------------------------------------------------------
(* ClipboardStore: request parsing.                                        *)

\* getClipboardFile: the identifier is refused iff it equals a reserved name.
getClipboardFileErr(id) == id \in reservedFiles

\* getFileMode: header over query over the first allowed mode; "" = error.
getFileMode(r) ==
    LET mode == IF r.modeHeader # "" THEN r.modeHeader
                ELSE IF r.modeQuery # "" THEN r.modeQuery
                ELSE config.FileModesAllowed[1]
    IN  IF \E i \in DOMAIN config.FileModesAllowed : config.FileModesAllowed[i] = mode
        THEN mode ELSE ""

\* getTTL: query over header over the configured maximum, clamped to the
\* maximum when one is configured; -1 = error.
getTTL(r) ==
    LET raw == IF r.ttlQuery # "" THEN parseDuration(r.ttlQuery)
               ELSE IF r.ttlHeader # "" THEN parseDuration(r.ttlHeader)
               ELSE IF config.FileExpireAfter > 0 THEN config.FileExpireAfter
               ELSE 0
    IN  IF raw < 0 THEN -1
        ELSE IF config.FileExpireAfter > 0 /\ raw > config.FileExpireAfter
        THEN config.FileExpireAfter
        ELSE raw

\* expires: time.Now().Add(ttl).Unix(), or 0 for "never".
ExpiresAt(t, ttl) == IF ttl > 0 THEN (t + ttl) \div Second ELSE 0

isStream(r) == r.stream

outputFormat(r) == IF r.format = "json" THEN "json" ELSE "text"

\* config.GenerateClipURL(id, ttl): the retrieval URL, as one chunk.
GenerateClipURL(id, ttl) == Chunk("url", id, ttl, 0)

\* json.Encoder.Encode(httpResponsePut{url, expires}).
EncodePut(url, expires) == Chunk("json", url[2], url[3], expires)

\* The debugging loop of writePutOutput writes this many extra lines.
hiThereLines == 100

\* n consecutive w.Write(text) calls, kept as one run-length chunk.
WriteTimes(w, text, n) == IF n = 0 THEN w ELSE Write(w, Chunk("repeat", text, n, 0))

\* writePutOutput; urlFail: GenerateClipURL fails.  Yields [err, w].
writePutOutput(w, id, expires, ttl, format, urlFail) ==
    IF urlFail THEN [err |-> StatusInternalServerError, w |-> w]
    ELSE LET url == GenerateClipURL(id, ttl)
             w1 == [w EXCEPT !.url = url, !.expires = Chunk("int", "", expires, 0)]
             w2 == IF format = "json"
                   THEN Write(w1, EncodePut(url, expires))
                   ELSE Write(Write(w1, url), TextChunk("\n"))
             w3 == WriteTimes(w2, "hi there\n", hiThereLines)
         IN  [err |-> 0, w |-> w3]

----------------------------------------------------------------------------
(* ClipboardStore: write.  An err of 0 means "go on"; otherwise it is the  *)
(* status handle() fails the request with.                                 *)

\* Lines 397-399: delete the entry and its metadata first.
RemoveEntry(st, id) == [st EXCEPT !.files[id] = NoFile, !.metas[id] = NoMeta]

\* A check of an absent file that counts the entry but never refuses it.
PutCheckAbsentNoCap(st, r) ==
    [err |-> 0, st |-> [st EXCEPT !.count.value = @ + 1]]

\* Lines 371-377: the file does not exist; the global count limiter decides.
PutCheckAbsent(st, r) ==
    IF ~LimiterFits(st.count, 1)
    THEN [err |-> StatusTooManyRequests, st |-> st]
    ELSE [err |-> 0, st |-> [st EXCEPT !.count = LimiterAdd(@, 1)]]

\* A check of an existing file that leaves the visitor's put count alone.
PutCheckPresentNoAdd(st, t, r) ==
    LET vs == getVisitor(st.visitors, r.ip, t)
        vl == [value |-> vs[r.ip].count, limit |-> visitorCountLimit]
        st1 == [st EXCEPT !.visitors = vs]
    IN  IF ~LimiterFits(vl, 1)
        THEN [err |-> StatusTooManyRequests, st |-> st1]
        ELSE IF ~MetaReadable(st, r.id)
        THEN [err |-> StatusInternalServerError, st |-> st1]
        ELSE IF st.metas[r.id].mode = modeReadOnly
        THEN [err |-> StatusMethodNotAllowed, st |-> st1]
        ELSE [err |-> 0, st |-> st1]

\* A check of an existing file that forgets the stored mode.
PutCheckPresentAnyMode(st, t, r) ==
    LET vs == getVisitor(st.visitors, r.ip, t)
        vl == [value |-> vs[r.ip].count, limit |-> visitorCountLimit]
        st1 == [st EXCEPT !.visitors =
                   [vs EXCEPT ![r.ip].count = LimiterAdd(vl, 1).value]]
    IN  IF ~LimiterFits(vl, 1)
        THEN [err |-> StatusTooManyRequests, st |-> [st EXCEPT !.visitors = vs]]
        ELSE IF ~MetaReadable(st, r.id)
        THEN [err |-> StatusInternalServerError, st |-> st1]
        ELSE [err |-> 0, st |-> st1]

\* Lines 378-395: the file exists; the visitor's put-count limiter decides,
\* then the stored mode.
PutCheckPresent(st, t, r) ==
    LET vs == getVisitor(st.visitors, r.ip, t)
        vl == [value |-> vs[r.ip].count, limit |-> visitorCountLimit]
        st1 == [st EXCEPT !.visitors =
                   [vs EXCEPT ![r.ip].count = LimiterAdd(vl, 1).value]]
    IN  IF ~LimiterFits(vl, 1)
        THEN [err |-> StatusTooManyRequests, st |-> [st EXCEPT !.visitors = vs]]
        ELSE IF ~MetaReadable(st, r.id)
        THEN [err |-> StatusInternalServerError, st |-> st1]
        ELSE IF st.metas[r.id].mode = modeReadOnly
        THEN [err |-> StatusMethodNotAllowed, st |-> st1]
        ELSE [err |-> 0, st |-> st1]

\* Lines 356-399: identifier, body, existence, limiters, delete-first.
PutCheck(st, t, r) ==
    IF getClipboardFileErr(r.id) THEN [err |-> StatusBadRequest, st |-> st]
    ELSE IF r.body = NoBody THEN [err |-> StatusBadRequest, st |-> st]
    ELSE LET c == IF ~Exists(st, r.id) THEN PutCheckAbsent(st, r)
                  ELSE PutCheckPresent(st, t, r)
         IN  IF c.err # 0 THEN c
             ELSE [err |-> 0, st |-> RemoveEntry(c.st, r.id)]

\* Lines 401-427: mode, TTL, expiry, metadata file.
PutMeta(st, t, r) ==
    LET mode == getFileMode(r)
        ttl == getTTL(r)
        expires == ExpiresAt(t, ttl)
        base == [err |-> 0, st |-> st, ttl |-> 0, expires |-> 0]
    IN  IF mode = "" THEN [base EXCEPT !.err = StatusBadRequest]
        ELSE IF ttl < 0 THEN [base EXCEPT !.err = StatusBadRequest]
        ELSE IF r.fault = "meta" THEN [base EXCEPT !.err = StatusInternalServerError]
        ELSE [err |-> 0, ttl |-> ttl, expires |-> expires,
              st |-> [st EXCEPT !.metas[r.id] = [mode |-> mode, expires |-> expires]]]

\* limitWriter under io.Copy: every chunk passes the per-upload limiter,
\* then the global size limiter, then reaches the file.
RECURSIVE LimitCopy(_, _, _, _)
LimitCopy(body, data, fileLim, sizeLim) ==
    IF body = <<>> THEN [err |-> "", data |-> data, size |-> sizeLim]
    ELSE IF ~LimiterFits(fileLim, 1) \/ ~LimiterFits(sizeLim, 1)
    THEN [err |-> "limit", data |-> data, size |-> sizeLim]
    ELSE LimitCopy(Tail(body), Append(data, Head(body)),
                   LimiterAdd(fileLim, 1), LimiterAdd(sizeLim, 1))

\* Lines 443-487 of a non-streaming write: open, copy under the limits,
\* close, output; every return after the open runs the deferred
\* updateStatsAndExpire.  Yields [err, st, w].
PutFile(st, t, r, m) ==
    IF r.fault = "open"
    THEN [err |-> StatusInternalServerError, w |-> NewWriter,
          st |-> [st EXCEPT !.count = LimiterSub(@, 1)]]
    ELSE LET c == LimitCopy(r.body, <<>>, newLimiter(config.FileSizeLimit), st.size)
             gone == [st EXCEPT !.files[r.id] = NoFile, !.size = c.size]
             kept == [st EXCEPT !.files[r.id] = RegularFile(c.data, t), !.size = c.size]
             out == writePutOutput(NewWriter, r.id, m.expires, m.ttl, outputFormat(r),
                                   r.fault = "output")
             res == IF r.fault = "copy"
                    THEN [err |-> StatusInternalServerError, w |-> NewWriter,
                          st |-> [st EXCEPT !.files[r.id] = NoFile]]
                    ELSE IF c.err = "limit"
                    THEN [err |-> StatusRequestEntityTooLarge, w |-> NewWriter, st |-> gone]
                    ELSE IF r.fault = "close"
                    THEN [err |-> StatusInternalServerError, w |-> NewWriter, st |-> gone]
                    ELSE IF out.err # 0
                    THEN [err |-> out.err, w |-> out.w, st |-> gone]
                    ELSE [err |-> 0, w |-> out.w, st |-> kept]
         IN  [res EXCEPT !.st = updateStatsAndExpire(res.st, t, IF r.fault = "readdir" THEN "readdir" ELSE "none")]

\* Lines 429-446 of a streaming write: make the handoff object, flush the
\* success response, then block in OpenFile until a reader opens the pipe.
\* Yields [err, st, w]; err = 0 means the writer is now blocked.
PutPipe(st, t, r, m) ==
    LET out == writePutOutput(NewWriter, r.id, m.expires, m.ttl, outputFormat(r),
                              r.fault = "output")
        piped == [st EXCEPT !.files[r.id] = NamedPipe(t)]
    IN  IF r.fault = "mkfifo"
        THEN [err |-> StatusInternalServerError, w |-> NewWriter,
              st |-> [st EXCEPT !.count = LimiterSub(@, 1)]]
        ELSE IF out.err # 0
        THEN [err |-> out.err, w |-> out.w,
              st |-> [piped EXCEPT !.count = LimiterSub(@, 1)]]
        ELSE [err |-> 0, w |-> out.w, st |-> piped]

\* handleClipboardPut up to its return or, for a streaming write, up to the
\* blocking open, with handle()'s error mapping.  Yields [st, w, blocked,
\* swept]; swept tells whether the deferred sweep ran and read the directory.
handleClipboardPut(st, t, r) ==
    LET a == PutCheck(st, t, r)
    IN  IF a.err # 0
        THEN [st |-> a.st, w |-> Finish(NewWriter, a.err), blocked |-> FALSE,
              swept |-> "no"]
        ELSE LET m == PutMeta(a.st, t, r)
             IN  IF m.err # 0
                 THEN [st |-> m.st, w |-> Finish(NewWriter, m.err), blocked |-> FALSE,
                       swept |-> "no"]
                 ELSE IF isStream(r)
                 THEN LET p == PutPipe(m.st, t, r, m)
                      IN  [st |-> p.st, blocked |-> p.err = 0, swept |-> "no",
                           w |-> IF p.err = 0 THEN p.w ELSE Finish(p.w, p.err)]
                 ELSE LET f == PutFile(m.st, t, r, m)
                      IN  [st |-> f.st, w |-> Finish(f.w, f.err), blocked |-> FALSE,
                           swept |-> IF r.fault = "open" THEN "no"
                                     ELSE IF r.fault = "readdir" THEN "failed"
                                     ELSE "ok"]

----------------------------------------------------------------------------
(* ClipboardStore: read.                                                   *)

\* A copy that stops one byte short of the end of the file.
WriteBytesShort(w, data) ==
    IF Len(data) <= 1 THEN w
    ELSE [WriteHeader(w, StatusOK) EXCEPT
             !.body = @ \o [i \in 1..(Len(data) - 1) |-> ByteChunk(data[i])]]

\* io.Copy(w, f): the bytes of the file, in order; nothing for an empty file.
WriteBytes(w, data) ==
    IF data = <<>> THEN w
    ELSE [WriteHeader(w, StatusOK) EXCEPT
             !.body = @ \o [i \in 1..Len(data) |-> ByteChunk(data[i])]]

\* handleClipboardGet of a regular file (or of nothing).  Yields the writer.
handleClipboardGet(st, id) ==
    IF getClipboardFileErr(id) THEN Finish(NewWriter, StatusBadRequest)
    ELSE IF ~Exists(st, id) THEN Finish(NewWriter, StatusNotFound)
    ELSE Finish(WriteBytes(NewWriter, st.files[id].data), 0)

\* A drain that leaves the pipe in place.
RemoveDrainedNot(st, id) == st

\* Lines 344-346 after the copy of a named pipe: os.Remove(file).
RemoveDrained(st, id) == [st EXCEPT !.files[id] = NoFile]

----------------------------------------------------------------------------
(* The store's specifications.                                             *)

\* The policy of the model's server: at most 2 entries, 3 bytes in all,
\* 2 bytes per upload; fea is the maximum (and default) lifetime.
StoreConfig(fea) ==
    [ClipboardCountLimit |-> 2, ClipboardSizeLimit |-> 3, FileSizeLimit |-> 2,
     FileExpireAfter |-> fea, FileModesAllowed |-> <<modeReadWrite, modeReadOnly>>,
     Key |-> NoKey]

\* The shapes of the write requests: which headers and query parameters
\* they carry, and which I/O operation of the handler fails under them.
BaseShape ==
    [modeHeader |-> "", modeQuery |-> "", ttlQuery |-> "", ttlHeader |-> "",
     stream |-> FALSE, format |-> "text", fault |-> "none"]

Shape(name) ==
    CASE name = "plain" -> BaseShape
      [] name = "json" -> [BaseShape EXCEPT !.format = "json"]
      [] name = "ro" -> [BaseShape EXCEPT !.modeHeader = modeReadOnly]
      [] name = "ro-query" -> [BaseShape EXCEPT !.modeQuery = modeReadOnly]
      [] name = "badmode" -> [BaseShape EXCEPT !.modeHeader = "zz"]
      [] name = "ttl" -> [BaseShape EXCEPT !.ttlQuery = "1m"]
      [] name = "ttl-header" -> [BaseShape EXCEPT !.ttlHeader = "3m"]
      [] name = "ttl-over" -> [BaseShape EXCEPT !.ttlQuery = "3m"]
      [] name = "ttl-zero" -> [BaseShape EXCEPT !.ttlQuery = "0s"]
      [] name = "badttl" -> [BaseShape EXCEPT !.ttlQuery = "soon"]
      [] name = "stream" -> [BaseShape EXCEPT !.stream = TRUE]
      [] name = "stream-json" -> [BaseShape EXCEPT !.stream = TRUE, !.format = "json"]
      [] name = "stream-ttl" -> [BaseShape EXCEPT !.stream = TRUE, !.ttlQuery = "1m"]
      [] name = "stream-mkfifo" -> [BaseShape EXCEPT !.stream = TRUE, !.fault = "mkfifo"]
      [] name = "stream-output" -> [BaseShape EXCEPT !.stream = TRUE, !.fault = "output"]
      [] OTHER -> [BaseShape EXCEPT !.fault = name]

PutRequests ==
    {[ip |-> ip, id |-> id, body |-> b] @@ Shape(n) :
        ip \in Addrs, id \in workload.ids, b \in workload.bodies, n \in workload.shapes}

NoResp ==
    [op |-> "", id |-> "", w |-> NewWriter, stream |-> FALSE, done |-> TRUE,
     life |-> "none", swept |-> "no"]

NoStream ==
    [pc |-> "idle", id |-> "", rest |-> <<>>, lim |-> newLimiter(0),
     w |-> NewWriter, rw |-> NewWriter]

NoAuth == [pc |-> "idle"]

\* No request dispatched yet.
NoRoute == [method |-> "", path |-> <<>>, route |-> 0]

\* The goroutines of concurrent requests.
Threads == {"r1", "r2", "r3"}

\* s.routes is nil: no table built, no goroutine in routeList.  table: 0 for
\* nil, else the number of the table built last; via: the table a
\* goroutine got from routeList (-1: a slice header read while it was being
\* written); bare: s.routes was read or written without the mutex.
NoRoutes ==
    [table |-> 0, built |-> 0, bare |-> FALSE,
     pc |-> [t \in Threads |-> "idle"], via |-> [t \in Threads |-> 0]]

\* serverManager waits on its ticker.
NoSweep == [pc |-> "idle", listed |-> {}, numFiles |-> 0, totalSize |-> 0]

SetStore(st) ==
    /\ files' = st.files
    /\ metas' = st.metas
    /\ countLimiter' = st.count
    /\ sizeLimiter' = st.size
    /\ visitors' = st.visitors

\* history of an identifier whose streamed content one reader has drained.
Drained == <<-2>>

\* The written body is history once the content file is gone; a drain is
\* history once the identifier is written again.
Forget(h, fs) ==
    [id \in Ids |-> IF fs[id].kind = "file" \/ h[id] = Drained THEN h[id] ELSE NoBody]

\* What the metadata says of an entry at time t: "none" (no entry, or one
\* that never expires), "live" or "expired".
Life(st, id, t) ==
    IF ~Exists(st, id) \/ ~MetaReadable(st, id) THEN "none"
    ELSE IF st.metas[id].expires = 0 THEN "none"
    ELSE IF isExpired(st, id, t) THEN "expired" ELSE "live"

\* The server after newServer; legacy: the content files, without
\* metadata, that the storage directory holds from before.
DirInit(cfg, wl, legacy) ==
    /\ now = 0
    /\ config = cfg
    /\ workload = wl
    /\ files = [id \in Ids |-> IF id \in legacy THEN RegularFile(<<1>>, 0) ELSE NoFile]
    /\ metas = [id \in Ids |-> NoMeta]
    /\ countLimiter = newLimiter(cfg.ClipboardCountLimit)
    /\ sizeLimiter = newLimiter(cfg.ClipboardSizeLimit)
    /\ visitors = [ip \in Addrs |-> NoVisitor]
    /\ resp = NoResp
    /\ stream = NoStream
    /\ history = [id \in Ids |-> NoBody]
    /\ auth = NoAuth
    /\ admitted = [ip \in Addrs |-> <<>>]
    /\ routed = NoRoute
    /\ mutex = ""
    /\ janitor = NoSweep
    /\ routes = NoRoutes

\* The server after newServer, with an empty storage directory.
StoreInit(cfg, wl) == DirInit(cfg, wl, {})

\* The clock advances by step, up to last.
Advance(step, last) ==
    /\ now < last
    /\ now' = now + step
    /\ UNCHANGED <<config, files, metas, countLimiter, sizeLimiter, visitors,
                   resp, stream, workload, history, auth, admitted, routed, mutex, janitor, routes>>

\* Two minutes pass.
Tick == Advance(2 * Minute, MaxTicks * 2 * Minute)

\* PUT|POST /{id} behind limit and auth, vs the visitors as limit left
\* them: the whole handler of a non-streaming write; a streaming write up
\* to its blocking open.  Only one streaming write is in flight at a time.
PutAs(r, vs) ==
        \E seen \in {[Store EXCEPT !.visitors = vs]} :
        \E out \in {handleClipboardPut(seen, now, r)} :
            /\ isStream(r) => stream.pc = "idle"
            /\ out.st.count.value >= -MaxDrift
            /\ SetStore(out.st)
            /\ resp' = [op |-> "PUT", id |-> r.id, w |-> out.w, stream |-> isStream(r),
                        done |-> ~out.blocked, life |-> "none", swept |-> out.swept]
            /\ stream' = IF out.blocked
                         THEN [pc |-> "open", id |-> r.id, rest |-> r.body,
                               lim |-> newLimiter(config.FileSizeLimit),
                               w |-> out.w, rw |-> NewWriter]
                         ELSE stream
            /\ history' = Forget([history EXCEPT ![r.id] =
                                     IF out.w.status = StatusOK /\ ~isStream(r)
                                     THEN r.body
                                     ELSE IF out.st.files[r.id] = files[r.id] THEN @
                                     ELSE NoBody],
                                 out.st.files)
            /\ UNCHANGED <<now, config, workload>>

\* A write let through by limit and auth.
Put ==
    \E r \in PutRequests :
        /\ PutAs(r, getVisitor(visitors, r.ip, now))
        /\ UNCHANGED <<auth, admitted, routed, mutex, janitor, routes>>

\* GET /{id} of a regular file or of nothing behind limit and auth.
GetAs(id, vs) ==
        /\ files[id].kind # "fifo"
        /\ visitors' = vs
        /\ resp' = [op |-> "GET", id |-> id, w |-> handleClipboardGet(Store, id),
                    stream |-> FALSE, done |-> TRUE,
                    life |-> Life(Store, id, now),
                    swept |-> "no"]
        /\ UNCHANGED <<now, config, files, metas, countLimiter, sizeLimiter,
                       stream, workload, history>>

\* A read let through by limit and auth.
Get ==
    \E ip \in Addrs, id \in workload.ids :
        /\ GetAs(id, getVisitor(visitors, ip, now))
        /\ UNCHANGED <<auth, admitted, routed, mutex, janitor, routes>>

\* GET /{id} of a named pipe: os.Open returns once the blocked writer and
\* this reader have both opened it.
GetAttach ==
    \E ip \in Addrs :
        /\ stream.pc = "open"
        /\ files[stream.id].kind = "fifo"
        /\ visitors' = getVisitor(visitors, ip, now)
        /\ stream' = [stream EXCEPT !.pc = "copy"]
        /\ UNCHANGED <<now, config, files, metas, countLimiter, sizeLimiter,
                       resp, workload, history, auth, admitted, routed, mutex, janitor, routes>>

\* The return of the streaming writer: handle()'s error mapping onto the
\* response that was already flushed, then the deferred sweep.
StreamWriterReturns(st, err, pc) ==
    LET swept == updateStatsAndExpire(st, now, "none")
    IN  /\ SetStore(swept)
        /\ resp' = [op |-> "PUT", id |-> stream.id, w |-> Finish(stream.w, err),
                    stream |-> TRUE, done |-> TRUE, life |-> "none", swept |-> "ok"]
        /\ stream' = IF pc = "idle" THEN NoStream
                     ELSE [stream EXCEPT !.pc = pc, !.w = Finish(stream.w, err)]
        /\ history' = Forget(history, swept.files)

\* The writer copies one chunk through the limit writer into the pipe and
\* the reader copies it on to its client; a cap breach ends the write.
StreamWrite ==
    /\ stream.pc = "copy"
    /\ stream.rest # <<>>
    /\ IF LimiterFits(stream.lim, 1) /\ LimiterFits(sizeLimiter, 1)
       THEN /\ stream' = [stream EXCEPT !.rest = Tail(@),
                                        !.lim = LimiterAdd(@, 1),
                                        !.rw = Write(@, ByteChunk(Head(stream.rest)))]
            /\ sizeLimiter' = LimiterAdd(sizeLimiter, 1)
            /\ UNCHANGED <<files, metas, countLimiter, visitors, resp, history>>
       ELSE StreamWriterReturns([Store EXCEPT !.files[stream.id] = NoFile],
                                StatusRequestEntityTooLarge, "eof")
    /\ UNCHANGED <<now, config, workload, auth, admitted, routed, mutex, janitor, routes>>

\* The body is exhausted: the writer closes it and returns nil.
StreamClose ==
    /\ stream.pc = "copy"
    /\ stream.rest = <<>>
    /\ StreamWriterReturns(Store, 0, "eof")
    /\ UNCHANGED <<now, config, workload, auth, admitted, routed, mutex, janitor, routes>>

\* The reading client goes away mid-stream: the reader's copy fails and
\* the writer's next write fails with EPIPE.
StreamBreak ==
    /\ stream.pc = "copy"
    /\ stream.rest # <<>>
    /\ StreamWriterReturns([Store EXCEPT !.files[stream.id] = NoFile],
                           StatusPartialContent, "idle")
    /\ UNCHANGED <<now, config, workload, auth, admitted, routed, mutex, janitor, routes>>

\* The reader sees end of file: it removes the pipe and returns.
StreamDrained ==
    LET st == RemoveDrained(Store, stream.id)
    IN  /\ stream.pc = "eof"
        /\ SetStore(st)
        /\ resp' = [op |-> "GET", id |-> stream.id, w |-> Finish(stream.rw, 0),
                    stream |-> TRUE, done |-> TRUE, life |-> "none", swept |-> "no"]
        /\ stream' = NoStream
        /\ history' = [history EXCEPT ![stream.id] = Drained]
        /\ UNCHANGED <<now, config, workload, auth, admitted, routed, mutex, janitor, routes>>

\* serverManager: the periodic sweep.
Sweep ==
    \E dirFail \in BOOLEAN :
        LET st == updateStatsAndExpire(Store, now, IF dirFail THEN "readdir" ELSE "none")
        IN  /\ SetStore(st)
            /\ resp' = [NoResp EXCEPT !.op = "SWEEP",
                                      !.swept = IF dirFail THEN "failed" ELSE "ok"]
            /\ history' = Forget(history, st.files)
            /\ UNCHANGED <<now, config, stream, workload, auth, admitted, routed, mutex, janitor, routes>>

\* The store with its clock stopped.
Next ==
    \/ Put
    \/ Get
    \/ GetAttach
    \/ StreamWrite
    \/ StreamClose
    \/ StreamBreak
    \/ StreamDrained
    \/ Sweep

\* The store under a running clock.
NextTimed ==
    \/ Tick
    \/ Put
    \/ Get
    \/ GetAttach
    \/ StreamWrite
    \/ StreamClose
    \/ StreamBreak
    \/ StreamDrained
    \/ Sweep

\* Two entries and the reserved name in its two spellings, bodies of every
\* size up to one over the per-upload cap, no expiry.
MainWorkload ==
    [ids |-> {"abc", "Help", "help"}, bodies |-> Bodies \cup {NoBody},
     shapes |-> {"plain", "stream"}]

Spec == StoreInit(StoreConfig(0), MainWorkload) /\ [][Next]_vars

\* One more identifier than the count cap admits, one body.
CountWorkload ==
    [ids |-> {"abc", "xyz", "Help", "help"}, bodies |-> {<<1>>},
     shapes |-> {"plain", "stream"}]

SpecCount == StoreInit(StoreConfig(0), CountWorkload) /\ [][Next]_vars

\* One entry with a lifetime, under the clock.
TTLWorkload ==
    [ids |-> {"abc"}, bodies |-> {<<1>>}, shapes |-> {"plain", "ttl", "stream"}]

SpecTTL == StoreInit(StoreConfig(2 * Minute), TTLWorkload) /\ [][NextTimed]_vars

\* One entry, written read-write or read-only, answered as text or JSON.
EntryWorkload ==
    [ids |-> {"abc"}, bodies |-> {<<1>>, <<1, 2>>},
     shapes |-> {"plain", "ro", "json", "stream"}]

SpecEntry == StoreInit(StoreConfig(0), EntryWorkload) /\ [][Next]_vars

\* A sweep in which an os.Remove of maybeExpire fails.
SweepFault ==
    \E fault \in {"rmfile", "rmmeta"} :
        LET st == updateStatsAndExpire(Store, now, fault)
        IN  /\ SetStore(st)
            /\ resp' = [NoResp EXCEPT !.op = "SWEEP", !.swept = fault]
            /\ history' = Forget(history, st.files)
            /\ UNCHANGED <<now, config, stream, workload, auth, admitted, routed, mutex, janitor, routes>>

\* The store and the janitor under a running clock, removals failing or not.
NextSweep ==
    \/ Tick
    \/ Put
    \/ Get
    \/ Sweep
    \/ SweepFault

\* Two entries written with the default or a one-minute TTL.
SweepWorkload ==
    [ids |-> {"abc", "Help"}, bodies |-> {<<1>>}, shapes |-> {"plain", "ttl"}]

\* A server with a maximum TTL of two minutes whose storage directory holds
\* one content file without metadata.
SpecSweep == DirInit(StoreConfig(2 * Minute), SweepWorkload, {"xyz"}) /\ [][NextSweep]_vars

\* updateStatsAndExpire step by step.  s.Lock(), then the visitors are
\* expunged; the mutex stays held until the function returns.
SweepLock ==
    /\ janitor.pc = "idle"
    /\ mutex = ""
    /\ mutex' = "janitor"
    /\ janitor' = [NoSweep EXCEPT !.pc = "readdir"]
    /\ visitors' = updateStatsAndExpire(Store, now, "readdir").visitors
    /\ UNCHANGED <<now, config, files, metas, countLimiter, sizeLimiter, resp, stream,
                   workload, history, auth, admitted, routed, routes>>

\* ioutil.ReadDir: on failure the sweep returns, and the deferred Unlock runs.
SweepReadDir ==
    /\ janitor.pc = "readdir"
    /\ \E dirFail \in BOOLEAN :
          IF dirFail
          THEN /\ janitor' = NoSweep
               /\ mutex' = ""
               /\ resp' = [NoResp EXCEPT !.op = "SWEEP", !.swept = "failed"]
          ELSE /\ janitor' = [janitor EXCEPT !.pc = "expire",
                                             !.listed = {id \in Ids : Exists(Store, id)}]
               /\ UNCHANGED <<mutex, resp>>
    /\ UNCHANGED <<now, config, files, metas, countLimiter, sizeLimiter, visitors, stream,
                   workload, history, auth, admitted, routed, routes>>

\* The loop over the listed files: maybeExpire removes, the rest is counted.
SweepExpire ==
    /\ janitor.pc = "expire"
    /\ \E st \in {updateStatsAndExpire(Store, now, "none")} :
          /\ files' = st.files
          /\ metas' = st.metas
          /\ history' = Forget(history, st.files)
          /\ janitor' = [janitor EXCEPT !.pc = "set", !.numFiles = st.count.value,
                                        !.totalSize = st.size.value]
    /\ UNCHANGED <<now, config, countLimiter, sizeLimiter, visitors, resp, stream,
                   workload, auth, admitted, routed, mutex, routes>>

\* countLimiter.Set, sizeLimiter.Set, return: the deferred Unlock runs.
SweepSet ==
    /\ janitor.pc = "set"
    /\ countLimiter' = LimiterSet(countLimiter, janitor.numFiles)
    /\ sizeLimiter' = LimiterSet(sizeLimiter, janitor.totalSize)
    /\ janitor' = NoSweep
    /\ mutex' = ""
    /\ resp' = [NoResp EXCEPT !.op = "SWEEP", !.swept = "ok"]
    /\ UNCHANGED <<now, config, files, metas, visitors, stream, workload, history,
                   auth, admitted, routed, routes>>

\* A request takes the mutex first, in getVisitor behind limit: it waits
\* while the sweep holds it.
LockedPut == mutex = "" /\ Put

LockedGet == mutex = "" /\ Get

\* Requests against the janitor's sweep, step by step.
NextLock ==
    \/ Tick
    \/ LockedPut
    \/ LockedGet
    \/ SweepLock
    \/ SweepReadDir
    \/ SweepExpire
    \/ SweepSet

SpecLock == StoreInit(StoreConfig(2 * Minute), SweepWorkload) /\ [][NextLock]_vars

\* One entry, written whole or streamed, the handoff of a streamed write
\* failing or not.
FaultWorkload ==
    [ids |-> {"abc"}, bodies |-> {<<1>>},
     shapes |-> {"plain", "stream", "stream-mkfifo", "stream-output"}]

SpecFault == StoreInit(StoreConfig(0), FaultWorkload) /\ [][Next]_vars

\* One entry written with no TTL, with one below, above or of zero length,
\* in the query or the header.
MaxTTLWorkload ==
    [ids |-> {"abc"}, bodies |-> {<<1>>},
     shapes |-> {"plain", "ttl", "ttl-header", "ttl-over", "ttl-zero"}]

\* A server with a maximum TTL of two minutes.
SpecMaxTTL == StoreInit(StoreConfig(2 * Minute), MaxTTLWorkload) /\ [][NextSweep]_vars

\* routeList, line 210: a request's goroutine reads s.routes before it
\* takes the mutex.  While another goroutine is writing the field the read
\* races with the write and may see a half-written slice header.
RoutesCheck(t) ==
    /\ routes.pc[t] = "idle"
    /\ \E seen \in {routes.table}
                   \cup (IF \E u \in Threads : routes.pc[u] = "build" THEN {-1} ELSE {}) :
          routes' = [routes EXCEPT !.bare = TRUE,
                                   !.pc[t] = IF seen = 0 THEN "lock" ELSE "dispatch",
                                   !.via[t] = seen]
    /\ UNCHANGED <<now, config, files, metas, countLimiter, sizeLimiter, visitors, resp,
                   stream, workload, history, auth, admitted, routed, mutex, janitor>>

\* Line 213: s.Lock().
RoutesLock(t) ==
    /\ routes.pc[t] = "lock"
    /\ mutex = ""
    /\ mutex' = t
    /\ routes' = [routes EXCEPT !.pc[t] = "build"]
    /\ UNCHANGED <<now, config, files, metas, countLimiter, sizeLimiter, visitors, resp,
                   stream, workload, history, auth, admitted, routed, janitor>>

\* Lines 216-227: the table is built and stored, without a second look at
\* s.routes; the deferred Unlock runs on return.
RoutesBuild(t) ==
    /\ routes.pc[t] = "build"
    /\ routes' = [routes EXCEPT !.table = routes.built + 1, !.built = routes.built + 1,
                                !.pc[t] = "dispatch", !.via[t] = routes.built + 1]
    /\ mutex' = ""
    /\ UNCHANGED <<now, config, files, metas, countLimiter, sizeLimiter, visitors, resp,
                   stream, workload, history, auth, admitted, routed, janitor>>

\* handle's loop over the table routeList returned; the goroutine ends.
RoutesDispatch(t) ==
    /\ routes.pc[t] = "dispatch"
    /\ routes' = [routes EXCEPT !.pc[t] = "idle"]
    /\ UNCHANGED <<now, config, files, metas, countLimiter, sizeLimiter, visitors, resp,
                   stream, workload, history, auth, admitted, routed, mutex, janitor>>

\* Concurrent requests on their way through routeList.
NextRoutes ==
    \E t \in Threads :
        \/ RoutesCheck(t)
        \/ RoutesLock(t)
        \/ RoutesBuild(t)
        \/ RoutesDispatch(t)

SpecRoutes == StoreInit(StoreConfig(0), MainWorkload) /\ [][NextRoutes]_vars

\* A non-streaming write in two steps, so that other requests and sweeps
\* run in between.  Lines 356-427: the checks and the limiter's Add, the
\* removals, the metadata; the content file is not yet open.
PutBegin ==
    \E r \in PutRequests :
    \E seen \in {[Store EXCEPT !.visitors = getVisitor(visitors, r.ip, now)]} :
    \E a \in {PutCheck(seen, now, r)} :
    \E m \in {PutMeta(a.st, now, r)} :
        /\ ~isStream(r)
        /\ stream.pc = "idle"
        /\ a.err = 0
        /\ m.err = 0
        /\ SetStore(m.st)
        /\ stream' = [NoStream EXCEPT !.pc = "added", !.id = r.id, !.rest = r.body]
        /\ resp' = [NoResp EXCEPT !.op = "PUT", !.id = r.id, !.done = FALSE]
        /\ history' = Forget([history EXCEPT ![r.id] = NoBody], m.st.files)
        /\ UNCHANGED <<now, config, workload, auth, admitted, routed, mutex, janitor, routes>>

\* Lines 443-487 of that write: open, copy, close, output, deferred sweep.
PutEnd ==
    \E r \in {q \in PutRequests : q.id = stream.id /\ q.body = stream.rest /\ ~isStream(q)} :
    \E f \in {PutFile(Store, now, r, [ttl |-> getTTL(r), expires |-> metas[r.id].expires])} :
        /\ stream.pc = "added"
        /\ SetStore(f.st)
        /\ stream' = NoStream
        /\ resp' = [NoResp EXCEPT !.op = "PUT", !.id = r.id, !.w = Finish(f.w, f.err),
                                  !.swept = "ok"]
        /\ history' = Forget([history EXCEPT ![r.id] =
                                 IF f.err = 0 THEN r.body ELSE NoBody], f.st.files)
        /\ UNCHANGED <<now, config, workload, auth, admitted, routed, mutex, janitor, routes>>

\* Writes, whole or in two steps, reads and sweeps in any order.
NextRace ==
    \/ PutBegin
    \/ PutEnd
    \/ Put
    \/ Get
    \/ Sweep

\* One more identifier than the count cap admits, written whole.
RaceWorkload ==
    [ids |-> {"abc", "xyz", "Help"}, bodies |-> {<<1>>}, shapes |-> {"plain"}]

SpecRace == StoreInit(StoreConfig(0), RaceWorkload) /\ [][NextRace]_vars

\* Two entries, written well or with a mode outside the allow-list or a
\* TTL that does not parse.
RejectWorkload ==
    [ids |-> {"abc", "xyz"}, bodies |-> {<<1>>}, shapes |-> {"plain", "badmode", "badttl"}]

SpecReject == StoreInit(StoreConfig(0), RejectWorkload) /\ [][NextRace]_vars

----------------------------------------------------------------------------
(* The middleware in front of the store: limit(auth(handler)).             *)

\* The bound of the rate limiter's clock, in quarter seconds, and of the
\* authorization guard's, in half minutes.
MaxRateTicks == 12
MaxAuthTicks == 3

RateStep == Second \div 4
AuthStep == 30 * Second

\* The protected server's key.
ServerSalt == "salt"
ServerKey == [Bytes |-> DeriveKey("secret", ServerSalt), Salt |-> ServerSalt]

Methods == {"GET", "PUT"}

\* What a client holding key signs for method and path at timestamp.
Sign(key, timestamp, ttlSecs, method, path) ==
    HmacCred(timestamp, ttlSecs, Hmac(key, timestamp, ttlSecs, method, path))

\* Rightly signed credentials for /abc: stamped at 0 or at 30 s, good for
\* the default window or for 45 s.
Signed ==
    {Sign(ServerKey.Bytes, ts, ttl, m, "abc") : ts \in {0, 30}, ttl \in {0, 45}, m \in Methods}

\* Credentials signed under another key or for another path, and rightly
\* signed ones presented with a later timestamp or a longer ttl.
Altered ==
    {Sign(DeriveKey("guess", ServerSalt), 0, 45, m, "abc") : m \in Methods}
    \cup {Sign(ServerKey.Bytes, 0, 45, m, "xyz") : m \in Methods}
    \cup {HmacCred(30, 0, Hmac(ServerKey.Bytes, 0, 0, m, "abc")) : m \in Methods}
    \cup {HmacCred(0, 45, Hmac(ServerKey.Bytes, 0, 0, m, "abc")) : m \in Methods}
    \cup {[Sign(ServerKey.Bytes, 0, 45, "GET", "abc") EXCEPT !.decodes = FALSE]}

GoodBasic == BasicCred(<<"x", "secret">>)

Basics ==
    {GoodBasic, BasicCred(<<"x", "guess">>), BasicCred(<<"x", "sec", "ret">>),
     [GoodBasic EXCEPT !.decodes = FALSE]}

NoAuthorization == [header |-> NoCred, queryAuth |-> "absent", query |-> NoCred]

\* A credential in the header; one in the auth query parameter, alone or
\* over a good header; a parameter that does not decode.
Authorizations ==
    {[NoAuthorization EXCEPT !.header = c] : c \in Signed \cup Altered \cup Basics \cup {NoCred}}
    \cup {[NoAuthorization EXCEPT !.queryAuth = "ok", !.query = c] :
             c \in {Sign(ServerKey.Bytes, 0, 0, "GET", "abc"),
                    Sign(ServerKey.Bytes, 0, 0, "PUT", "abc"), GoodBasic}}
    \cup {[NoAuthorization EXCEPT !.header = GoodBasic, !.queryAuth = "garbled"],
          [NoAuthorization EXCEPT !.header = GoodBasic, !.queryAuth = "ok"],
          [NoAuthorization EXCEPT !.header = GoodBasic, !.queryAuth = "ok",
                                  !.query = Sign(ServerKey.Bytes, 0, 45, "GET", "xyz")]}

Requests ==
    {[ip |-> ip, method |-> m, id |-> id, path |-> id] @@ a :
        ip \in Addrs, m \in workload.methods, id \in workload.ids, a \in workload.auths}

\* The admitted requests of the second that ends at t.
Recent(times, t) == SelectSeq(times, LAMBDA x : t - x <= Second)

Refused(r, vs, code) ==
    /\ visitors' = vs
    /\ resp' = [NoResp EXCEPT !.op = r.method, !.id = r.id, !.w = fail(NewWriter, code)]
    /\ UNCHANGED <<now, config, files, metas, countLimiter, sizeLimiter,
                   stream, workload, history>>

Answered(r, vs, w) ==
    /\ visitors' = vs
    /\ resp' = [NoResp EXCEPT !.op = r.method, !.id = r.id, !.w = w]
    /\ UNCHANGED <<now, config, files, metas, countLimiter, sizeLimiter,
                   stream, workload, history>>

\* handleInfo: 200 and the JSON of {serverAddr, salt}.
handleInfo(w) == Write(WriteHeader(w, StatusOK), Chunk("info", config.Key.Salt, 0, 0))

\* handleRoot: the curl page for curl, else the web UI if it is enabled,
\* behind the redirect to HTTPS.
handleRoot(w, r) ==
    IF r.curl THEN Write(w, Chunk("curl-root", "", 0, 0))
    ELSE IF ~config.WebUI THEN fail(w, StatusBadRequest)
    ELSE IF ~r.tls /\ config.ListenHTTPS # ""
    THEN Write(WriteHeader(w, StatusFound), Chunk("redirect", "", 0, 0))
    ELSE Write(w, Chunk("web-root", "", 0, 0))

\* onlyIfWebUI(handleStatic): the embedded file server.
handleStatic(w, r) ==
    IF ~config.WebUI THEN fail(w, StatusBadRequest)
    ELSE Write(w, Chunk("static", "", 0, 0))

\* limit(auth(handler)) or, for kind "info", limit(handler), around the
\* handler of a route.
Chain(r, kind) ==
    \E lim \in {limit(visitors, r.ip, now)} :
        IF lim.err # 0
        THEN /\ Refused(r, lim.visitors, lim.err)
             /\ auth' = NoAuth
             /\ admitted' = [admitted EXCEPT ![r.ip] = Recent(@, now)]
        ELSE \E err \in {IF kind = "info" THEN 0 ELSE authorize(r, now)} :
             /\ auth' = IF kind = "info" THEN NoAuth
                        ELSE [pc |-> "done", r |-> r, err |-> err, at |-> now]
             /\ admitted' = [admitted EXCEPT ![r.ip] = Append(Recent(@, now), now)]
             /\ IF err # 0 THEN Refused(r, lim.visitors, err)
                ELSE IF kind = "info"
                THEN Answered(r, lim.visitors, handleInfo(NewWriter))
                ELSE IF kind = "verify"
                THEN Answered(r, lim.visitors, Finish(NewWriter, 0))
                ELSE IF getClipboardFileErr(r.id)
                THEN Refused(r, lim.visitors, StatusBadRequest)
                ELSE IF kind = "get" THEN GetAs(r.id, lim.visitors)
                ELSE \E w \in {q \in PutRequests : q.ip = r.ip /\ q.id = r.id} :
                        PutAs(w, lim.visitors)

\* handle: a request for /{id} through limit, auth and the store's handler.
Request ==
    \E r \in Requests :
        /\ Chain(r, IF r.method = "GET" THEN "get" ELSE "put")
        /\ UNCHANGED <<routed, mutex, janitor, routes>>

RateTick == Advance(RateStep, MaxRateTicks * RateStep)

AuthTick == Advance(AuthStep, MaxAuthTicks * AuthStep)

NextRate ==
    \/ RateTick
    \/ Request

NextAuth ==
    \/ AuthTick
    \/ Request

\* One client reading one identifier of an open server, by quarter seconds.
RateWorkload ==
    [ids |-> {"abc"}, bodies |-> {<<1>>}, shapes |-> {"plain"},
     methods |-> {"GET"}, auths |-> {NoAuthorization}]

SpecRate == StoreInit(StoreConfig(0), RateWorkload) /\ [][NextRate]_vars

\* One client reading and writing one identifier of a protected server
\* under every credential, by half minutes.
AuthWorkload ==
    [ids |-> {"abc"}, bodies |-> {<<1>>}, shapes |-> {"plain"},
     methods |-> Methods, auths |-> Authorizations]

SpecAuth ==
    StoreInit([StoreConfig(0) EXCEPT !.Key = ServerKey], AuthWorkload)
    /\ [][NextAuth]_vars

----------------------------------------------------------------------------
(* Router: routeList, newRoute, handle.                                    *)

\* Paths are sequences of characters.
Letters ==
    {"a", "b", "c", "d", "e", "f", "g", "h", "i", "j", "k", "l", "m",
     "n", "o", "p", "q", "r", "s", "t", "u", "v", "w", "x", "y", "z"}
Digits == {"0", "1", "2", "3", "4", "5", "6", "7", "8", "9"}

\* (?i): the lower-case form of the letters the model's paths use.
LowerChar(c) == IF c = "H" THEN "h" ELSE c

\* The path of the names the model's requests use.
PathOf(name) ==
    CASE name = "abc" -> <<"/", "a", "b", "c">>
      [] name = "Help" -> <<"/", "H", "e", "l", "p">>
      [] name = "help" -> <<"/", "h", "e", "l", "p">>
      [] name = "info" -> <<"/", "i", "n", "f", "o">>
      [] name = "verify" -> <<"/", "v", "e", "r", "i", "f", "y">>
      [] name = "static/" -> <<"/", "s", "t", "a", "t", "i", "c", "/">>
      [] name = "static/x" -> <<"/", "s", "t", "a", "t", "i", "c", "/", "x">>
      [] name = "a" -> <<"/", "a">>
      [] name = "-ab" -> <<"/", "-", "a", "b">>
      [] name = "abc/" -> <<"/", "a", "b", "c", "/">>
      [] name = "" -> <<"/">>
      [] OTHER -> <<>>

Names ==
    {"abc", "Help", "help", "info", "verify", "static/", "static/x", "a",
     "-ab", "abc/", ""}

\* matches[1] of the identifier routes: the path without its slash.
IdOf(path) == CHOOSE name \in Names : PathOf(name) = path

\* The bounds of the identifier pattern's repetition {1,100}.
idTailMin == 1
idTailMax == 100

\* regexp "^" + pattern + "$" on the whole path, per pattern of routeList.
Matches(pattern, path) ==
    CASE pattern = "/" -> path = <<"/">>
      [] pattern = "/static/.+" ->
            /\ Len(path) > Len(PathOf("static/"))
            /\ SubSeq(path, 1, Len(PathOf("static/"))) = PathOf("static/")
            /\ \A i \in DOMAIN path : path[i] # "\n"
      [] pattern = "/info" -> path = PathOf("info")
      [] pattern = "/verify" -> path = PathOf("verify")
      [] pattern = "/(?i)([a-z0-9][-_.a-z0-9]{1,100})" ->
            /\ Len(path) >= 2 + idTailMin
            /\ Len(path) <= 2 + idTailMax
            /\ path[1] = "/"
            /\ LowerChar(path[2]) \in Letters \cup Digits
            /\ \A i \in 3..Len(path) :
                  LowerChar(path[i]) \in Letters \cup Digits \cup {"-", "_", "."}
      [] OTHER -> FALSE

IdPattern == "/(?i)([a-z0-9][-_.a-z0-9]{1,100})"

newRoute(method, pattern, handler) ==
    [method |-> method, pattern |-> pattern, handler |-> handler]

routeList ==
    <<newRoute("GET", "/", "handleRoot"),
      newRoute("PUT", "/", "handleClipboardPutRandom"),
      newRoute("POST", "/", "handleClipboardPutRandom"),
      newRoute("GET", "/static/.+", "handleStatic"),
      newRoute("GET", "/info", "handleInfo"),
      newRoute("GET", "/verify", "handleVerify"),
      newRoute("GET", IdPattern, "handleClipboardGet"),
      newRoute("PUT", IdPattern, "handleClipboardPut"),
      newRoute("POST", IdPattern, "handleClipboardPut")>>

\* The routes of the list that take the request.
Hits(method, path) ==
    {i \in DOMAIN routeList :
        Matches(routeList[i].pattern, path) /\ method = routeList[i].method}

\* A dispatch that lets the last matching route win.
DispatchLast(method, path) ==
    IF Hits(method, path) = {} THEN 0
    ELSE CHOOSE i \in Hits(method, path) : \A j \in Hits(method, path) : j <= i

\* handle's loop: the index of the first route that takes the request, 0
\* if none does.
Dispatch(method, path) ==
    IF Hits(method, path) = {} THEN 0
    ELSE CHOOSE i \in Hits(method, path) : \A j \in Hits(method, path) : i <= j

\* handle: dispatch, the route's handler, the error mapping.
Handle ==
    \E ip \in Addrs, method \in workload.methods, name \in workload.names :
    \E curl \in IF name = "" THEN BOOLEAN ELSE {FALSE} :
    \E i \in {Dispatch(method, PathOf(name))} :
    \E r \in {[ip |-> ip, method |-> method, id |-> name, path |-> name,
               curl |-> curl, tls |-> FALSE] @@ NoAuthorization} :
        /\ routed' = [method |-> method, path |-> PathOf(name), route |-> i]
        /\ UNCHANGED <<mutex, janitor, routes>>
        /\ IF i = 0
           THEN /\ Refused(r, visitors,
                           IF method = "GET" THEN StatusNotFound ELSE StatusBadRequest)
                /\ UNCHANGED <<auth, admitted>>
           ELSE IF routeList[i].handler = "handleRoot"
           THEN /\ Answered(r, visitors, handleRoot(NewWriter, r))
                /\ UNCHANGED <<auth, admitted>>
           ELSE IF routeList[i].handler = "handleStatic"
           THEN /\ Answered(r, visitors, handleStatic(NewWriter, r))
                /\ UNCHANGED <<auth, admitted>>
           ELSE IF routeList[i].handler = "handleInfo" THEN Chain(r, "info")
           ELSE IF routeList[i].handler = "handleVerify" THEN Chain(r, "verify")
           ELSE IF routeList[i].handler = "handleClipboardGet"
           THEN Chain([r EXCEPT !.id = IdOf(PathOf(name))], "get")
           ELSE IF routeList[i].handler = "handleClipboardPut"
           THEN Chain([r EXCEPT !.id = IdOf(PathOf(name))], "put")
           ELSE \E id \in workload.ids : Chain([r EXCEPT !.id = id], "put")

NextRoute == Handle

\* Every method on every kind of path of an open server without web UI.
RouteWorkload ==
    [ids |-> {"abc", "Help"}, bodies |-> {<<1>>}, shapes |-> {"plain"},
     methods |-> {"GET", "PUT", "POST", "DELETE"}, names |-> Names]

RouteConfig == [WebUI |-> FALSE, ListenHTTPS |-> ""] @@ StoreConfig(0)

SpecRoute == StoreInit(RouteConfig, RouteWorkload) /\ [][NextRoute]_vars

----------------------------------------------------------------------------
(* Properties of the store.                                                *)

\* Content files present in the storage directory.
Present == {id \in Ids : Exists(Store, id)}

\* The bytes of a body as a response carries them.
AsChunks(data) == [i \in 1..Len(data) |-> ByteChunk(data[i])]

\* Write requests of the workload that carry a body for a permitted,
\* non-reserved identifier, as the handler sees them behind the middleware.
Writes == {r \in PutRequests : ~getClipboardFileErr(r.id) /\ r.body # NoBody}

Behind(r) == [Store EXCEPT !.visitors = getVisitor(visitors, r.ip, now)]

\* C1: a GET of an identifier whose present content a successful
\* non-streaming PUT wrote (no write, expiry or deletion since) succeeds and
\* returns exactly the bytes that were PUT.
C1_RoundTrip ==
    (resp.op = "GET" /\ ~resp.stream /\ resp.life # "expired"
        /\ history[resp.id] \notin {NoBody, Drained})
    => /\ resp.w.status = StatusOK
       /\ resp.w.body = AsChunks(history[resp.id])

C1_Witness ==
    /\ resp.op = "GET"
    /\ resp.id = "abc"
    /\ history["abc"] = <<1, 2>>
    /\ resp.w.status = StatusOK
    /\ Len(resp.w.body) = 2


\* C2: a GET of an entry written with a lifetime succeeds before expiresAt
\* and returns not-found once expiresAt has passed, sweep or no sweep.
C2_ExpiredNotFound ==
    (resp.op = "GET" /\ ~resp.stream)
    => /\ resp.life = "live" => resp.w.status = StatusOK
       /\ resp.life = "expired" => resp.w.status = StatusNotFound

\* C3: overwriting an entry leaves the global count limiter alone and is
\* not refused for the count cap; and right after a successful write that
\* leaves as many entries as the cap admits, every write to an absent
\* identifier is refused with 429.
C3_CountCap ==
    /\ \A r \in Writes :
          Exists(Store, r.id)
          => LET c == PutCheck(Behind(r), now, r)
             IN  /\ c.st.count = countLimiter
                 /\ (c.err = StatusTooManyRequests
                        => visitors[r.ip].count >= visitorCountLimit)
                 /\ handleClipboardPut(Behind(r), now, r).st.count.value
                        <= countLimiter.value
    /\ (resp.op = "PUT" /\ resp.done /\ resp.w.status = StatusOK /\ resp.swept = "ok"
           /\ Cardinality(Present) = config.ClipboardCountLimit)
       => \A r \in Writes :
             ~Exists(Store, r.id)
             => handleClipboardPut(Behind(r), now, r).w.status = StatusTooManyRequests

\* The write after the cap is reached, refused.
C3_Witness ==
    /\ resp.op = "PUT"
    /\ resp.w.status = StatusTooManyRequests
    /\ ~Exists(Store, resp.id)
    /\ Cardinality(Present) = config.ClipboardCountLimit
    /\ countLimiter.value = config.ClipboardCountLimit

\* C4: after a write refused as too large, neither the content file nor
\* any side file of the identifier is left in the storage directory.
C4_NothingLeft ==
    (resp.op = "PUT" /\ resp.done /\ ~resp.stream
        /\ resp.w.status = StatusRequestEntityTooLarge)
    => /\ files[resp.id] = NoFile
       /\ metas[resp.id] = NoMeta

\* What a GET of the identifier would answer now.
GetNow(st, id) == handleClipboardGet(st, id)

\* C5 as stated: every write to a read-only entry is refused with 405 and
\* leaves the entry as it was.
C5_ReadOnlyRefused ==
    \A r \in Writes :
        (Exists(Store, r.id) /\ metas[r.id].mode = modeReadOnly)
        => LET out == handleClipboardPut(Behind(r), now, r)
           IN  /\ out.w.status = StatusMethodNotAllowed
               /\ out.st.files = files
               /\ out.st.metas = metas

\* C5 amended: a write to a read-only entry is refused with 405, or with
\* 429 when the visitor's put-count limiter is at its cap; either way the
\* content and the metadata stay and a GET still returns the content.
C5_ReadOnlyKept ==
    \A r \in Writes :
        (Exists(Store, r.id) /\ metas[r.id].mode = modeReadOnly)
        => LET out == handleClipboardPut(Behind(r), now, r)
           IN  /\ out.w.status =
                    IF visitors[r.ip].count >= visitorCountLimit
                    THEN StatusTooManyRequests ELSE StatusMethodNotAllowed
               /\ out.st.files = files
               /\ out.st.metas = metas
               /\ files[r.id].kind = "file"
                    => /\ GetNow(out.st, r.id).status = StatusOK
                       /\ GetNow(out.st, r.id).body = AsChunks(files[r.id].data)

\* A refused write to a read-only entry whose content is still there.
C5_Witness ==
    /\ resp.op = "PUT"
    /\ resp.w.status = StatusMethodNotAllowed
    /\ metas[resp.id].mode = modeReadOnly
    /\ files[resp.id].data = <<1, 2>>

\* C6: while a streaming write is blocked on, or copying into, its handoff
\* object, its success response with the retrieval URL is already on the
\* wire, and before the reader attached no byte was copied; once a reader
\* has drained the stream, a GET of the identifier answers not-found until
\* the identifier is written again.
C6_Streaming ==
    /\ stream.pc # "idle"
       => /\ stream.w.status = StatusOK
          /\ stream.w.url[1] = "url" /\ stream.w.url[2] = stream.id
          /\ \E i \in DOMAIN stream.w.body : stream.w.body[i][1] \in {"url", "json"}
    /\ stream.pc = "open" => stream.rw = NewWriter /\ stream.lim.value = 0
    /\ \A id \in Ids :
          history[id] = Drained => GetNow(Store, id).status = StatusNotFound
    /\ (resp.op = "GET" /\ history[resp.id] = Drained /\ ~resp.stream)
       => resp.w.status = StatusNotFound

\* A GET answered not-found after the stream was drained.
C6_Witness ==
    /\ resp.op = "GET"
    /\ ~resp.stream
    /\ history[resp.id] = Drained
    /\ resp.w.status = StatusNotFound

\* C7: a visitor's bucket starts with the burst and never holds more; a
\* request is let through iff the bucket, refilled at the rate, holds a
\* token, and a refused one takes nothing; no more than burst + rate
\* requests are let through within one second, the next one is refused with
\* 429 at once; after the time one token takes to refill, a request is let
\* through again.
C7_TokenBucket ==
    /\ \A ip \in Addrs :
          LET v == visitors[ip]
              out == limit(visitors, ip, now)
          IN  /\ Len(admitted[ip])
                    <= visitorRequestsPerSecondBurst + visitorRequestsPerSecond
              /\ Len(Recent(admitted[ip], now))
                    = visitorRequestsPerSecondBurst + visitorRequestsPerSecond
                 => out.err = StatusTooManyRequests
              /\ ~v.exists
                 => /\ out.err = 0
                    /\ out.visitors[ip].tokens = (visitorRequestsPerSecondBurst - 1) * 1000
              /\ v.exists
                 => /\ v.tokens \in 0..(visitorRequestsPerSecondBurst * 1000)
                    /\ out.err = 0 <=> Tokens(v, now) >= 1000
                    /\ out.err # 0
                       => /\ out.err = StatusTooManyRequests
                          /\ out.visitors[ip].tokens = v.tokens
                    /\ (now - v.last) * visitorRequestsPerSecond >= 1000 => out.err = 0
    /\ (resp.op = "GET" /\ resp.w.status = StatusTooManyRequests)
       => resp.w.body = <<StatusText(StatusTooManyRequests)>>

\* The request after burst + rate were let through in one second, refused.
C7_Witness ==
    /\ resp.op = "GET"
    /\ resp.w.status = StatusTooManyRequests
    /\ Len(admitted["10.0.0.1"]) = visitorRequestsPerSecondBurst + visitorRequestsPerSecond
    /\ now = Second

\* The credential the guard looks at.
Presented(r) == IF r.queryAuth = "ok" THEN r.query ELSE r.header

\* C8: on a protected server a signed credential is accepted only if its
\* signature is the HMAC, under the server's key, of the presented
\* timestamp and ttl and of the request's own method and path, and only
\* while now - timestamp is within ttl seconds (the default window when ttl
\* is 0); any other signed credential is answered 401.
C8_SignedOnly ==
    (auth.pc = "done" /\ config.Key # NoKey /\ Presented(auth.r).scheme = "HMAC")
    => LET m == Presented(auth.r)
       IN  /\ auth.err = 0
              => /\ m.hash[1] = config.Key.Bytes
                 /\ m.hash[2] = m.timestamp
                 /\ m.hash[3] = m.ttlSecs
                 /\ m.hash[4] = auth.r.method
                 /\ m.hash[5] = auth.r.path
                 /\ m.decodes
                 /\ auth.at - m.timestamp * Second
                       <= (IF m.ttlSecs > 0 THEN m.ttlSecs * Second ELSE defaultMaxAuthAge)
           /\ auth.err # 0
              => /\ auth.err = StatusUnauthorized
                 /\ resp.w.status = StatusUnauthorized
                 /\ resp.op = auth.r.method

\* A rightly signed credential replayed after its window, refused.
C8_Witness ==
    /\ auth.pc = "done"
    /\ auth.r.header = Sign(ServerKey.Bytes, 0, 45, "PUT", "abc")
    /\ auth.r.queryAuth = "absent"
    /\ auth.r.method = "PUT"
    /\ auth.at = 2 * AuthStep
    /\ files["abc"].kind = "file"
    /\ auth.err = StatusUnauthorized
    /\ resp.w.status = StatusUnauthorized

\* C9: a read or write of an identifier that is a reserved name in any
\* letter case is refused with 400 and touches no file.
C9_ReservedRefused ==
    (resp.op \in {"GET", "PUT"} /\ ToLower(resp.id) \in reservedFiles)
    => /\ resp.w.status = StatusBadRequest
       /\ files[resp.id] = NoFile
       /\ metas[resp.id] = NoMeta

\* C10: the body of a successful write's response is the URL and a newline,
\* or the JSON object, and nothing else; the headers carry the same values.
C10_OutputExact ==
    (resp.op = "PUT" /\ resp.done /\ ~resp.stream /\ resp.w.status = StatusOK)
    => /\ resp.w.url[1] = "url" /\ resp.w.url[2] = resp.id
       /\ resp.w.expires[3] = metas[resp.id].expires
       /\ \/ resp.w.body = <<resp.w.url, TextChunk("\n")>>
          \/ resp.w.body = <<EncodePut(resp.w.url, resp.w.expires[3])>>


\* C11: a request goes to the first route of the list whose method is the
\* request's and whose pattern matches the whole path: no earlier route
\* takes it; GET /info and GET /static/x go to their own routes, not to the
\* identifier route after them, and PUT /info to the identifier route; a
\* request no route takes is answered 404 if it is a GET, else 400.
C11_FirstRoute ==
    routed # NoRoute
    => /\ routed.route = 0
          => /\ \A i \in DOMAIN routeList :
                   ~(Matches(routeList[i].pattern, routed.path)
                     /\ routeList[i].method = routed.method)
             /\ resp.w.status =
                   IF routed.method = "GET" THEN StatusNotFound ELSE StatusBadRequest
       /\ routed.route # 0
          => /\ Matches(routeList[routed.route].pattern, routed.path)
             /\ routeList[routed.route].method = routed.method
             /\ \A j \in 1..(routed.route - 1) :
                   ~(Matches(routeList[j].pattern, routed.path)
                     /\ routeList[j].method = routed.method)
       /\ (routed.method = "GET" /\ routed.path = PathOf("info"))
          => routeList[routed.route].handler = "handleInfo"
       /\ (routed.method = "GET" /\ routed.path = PathOf("static/x"))
          => routeList[routed.route].handler = "handleStatic"
       /\ (routed.method = "PUT" /\ routed.path = PathOf("info"))
          => /\ routeList[routed.route].handler = "handleClipboardPut"
             /\ resp.w.status \in {StatusBadRequest, StatusTooManyRequests}
       /\ (routed.method = "GET" /\ routed.path = PathOf("Help"))
          => routeList[routed.route].handler = "handleClipboardGet"
       /\ routed.path \in {PathOf("a"), PathOf("-ab"), PathOf("abc/"), PathOf("static/")}
          => routed.route = 0
       /\ routed.method = "DELETE" => routed.route = 0

\* GET /info answered by handleInfo.
C11_Witness ==
    /\ routed.method = "GET"
    /\ routed.path = PathOf("info")
    /\ routed.route = 5
    /\ resp.w.status = StatusOK
    /\ resp.w.body = <<Chunk("info", "", 0, 0)>>


\* C12: whenever no write to an identifier is in progress, its content file
\* exists iff its metadata file exists.
C12_FileIffMeta ==
    \A id \in Ids :
        (resp.done /\ (stream.pc = "idle" \/ stream.id # id))
        => (files[id] # NoFile <=> metas[id] # NoMeta)


\* C13: when a sweep completes after reading the directory, the global
\* count limiter is the number of content files in the storage directory
\* and the global size limiter the sum of their sizes.
C13_LimitersTrue ==
    (resp.op = "SWEEP" /\ resp.swept # "failed")
    => /\ countLimiter.value = Cardinality(Present)
       /\ sizeLimiter.value = SumSizes(files, Present)


\* No file of an expired entry is in the storage directory.
NoExpiredLeft ==
    \A id \in Ids :
        /\ ~(metas[id] # NoMeta /\ metas[id].expires > 0
                /\ now > metas[id].expires * Second)
        /\ ~(files[id] # NoFile /\ metas[id] = NoMeta /\ config.FileExpireAfter > 0
                /\ now - files[id].mtime > config.FileExpireAfter)

\* C14: one sweep deletes the content file and the metadata file of every
\* expired entry and of no other; what a failing deletion leaves, the next
\* sweep deletes: after a sweep whose removals all succeed no file of an
\* expired entry is left, and no sweep touches an entry that has not
\* expired.
C14_ExpiredGone ==
    [][(now' = now /\ resp'.op = "SWEEP" /\ resp'.swept # "failed")
       => /\ resp'.swept = "ok" => NoExpiredLeft'
          /\ \A id \in Ids :
                (Exists(Store, id) /\ ~isExpired(Store, id, now))
                => files'[id] = files[id] /\ metas'[id] = metas[id]]_vars

\* C15: a sweep that cannot read the storage directory leaves the global
\* count limiter and the global size limiter at the values they had before
\* it, and deletes no file.
C15_ReadDirFailKeeps ==
    [][(now' = now /\ resp'.op = "SWEEP" /\ resp'.swept = "failed")
       => UNCHANGED <<countLimiter, sizeLimiter, files, metas>>]_vars

\* A sweep failed to read a directory that holds an expired entry which
\* the limiters count.
C15_Witness ==
    /\ resp.op = "SWEEP"
    /\ resp.swept = "failed"
    /\ countLimiter.value > 0
    /\ sizeLimiter.value > 0
    /\ \E id \in Ids : Exists(Store, id) /\ isExpired(Store, id, now)


\* C16: the server mutex is never held while a filesystem operation (the
\* directory read, the removals of the sweep) is performed.
C16_NoIOUnderLock ==
    mutex # "" => janitor.pc \notin {"readdir", "expire"}


\* C17: a streaming write whose handoff object cannot be made, or whose
\* early response cannot be flushed, reports the failure and leaves the
\* global count limiter at the value it had before the request, whether the
\* identifier was absent or present.
C17_RolledBack ==
    \A r \in Writes :
        (r.stream /\ r.fault \in {"mkfifo", "output"})
        => LET out == handleClipboardPut(Behind(r), now, r)
           IN  \/ out.w.status \in {StatusTooManyRequests, StatusMethodNotAllowed}
               \/ /\ out.w.status = StatusInternalServerError
                  /\ out.st.count.value = countLimiter.value


\* C18: every write that gets past the reserved-identifier check runs the
\* stats/expiry sweep when its handler completes, whatever its outcome.
C18_AlwaysSwept ==
    (resp.op = "PUT" /\ resp.done /\ ~getClipboardFileErr(resp.id))
    => resp.swept # "no"


\* C19: with a maximum TTL configured, every stored entry expires, and no
\* later than the maximum after it was written; a write without a TTL, or
\* with one above the maximum, stores write time plus the maximum; a TTL in
\* the header resolves as the same TTL in the query.
C19_WithinMax ==
    config.FileExpireAfter > 0
    => /\ \A id \in Ids :
             (files[id].kind = "file" /\ MetaReadable(Store, id))
             => /\ metas[id].expires > 0
                /\ metas[id].expires * Second <= files[id].mtime + config.FileExpireAfter
       /\ \A r \in Writes :
             LET m == PutMeta(Behind(r), now, r)
                 asHeader == [r EXCEPT !.ttlHeader = r.ttlQuery, !.ttlQuery = ""]
             IN  /\ (m.err = 0 /\ r.ttlQuery = "" /\ r.ttlHeader = "")
                     => m.expires * Second = now + config.FileExpireAfter
                 /\ (m.err = 0 /\ getTTL(r) > 0)
                     => m.expires * Second = now + getTTL(r)
                 /\ (r.ttlHeader = "" /\ r.ttlQuery # "")
                     => getTTL(asHeader) = getTTL(r)
                 /\ getTTL(r) <= config.FileExpireAfter


\* C20: a write to an existing identifier adds one to the put count of the
\* requesting visitor and is answered 429 exactly when that count is
\* already at the cap of 10, whatever the stored mode (the read-only check
\* comes after); a write to an absent identifier leaves every visitor's put
\* count as it was.
C20_PutCount ==
    \A r \in Writes :
        LET seen == Behind(r)
            before == seen.visitors[r.ip].count
            out == handleClipboardPut(seen, now, r)
        IN  IF Exists(Store, r.id)
            THEN /\ out.w.status = StatusTooManyRequests <=> before >= visitorCountLimit
                 /\ out.st.visitors[r.ip].count =
                       IF before >= visitorCountLimit THEN before ELSE before + 1
                 /\ out.w.status = StatusMethodNotAllowed
                       => /\ metas[r.id].mode = modeReadOnly
                          /\ before < visitorCountLimit
            ELSE \A ip \in Addrs : out.st.visitors[ip].count = seen.visitors[ip].count

\* The eleventh overwrite of one visitor, refused with 429.
C20_Witness ==
    /\ resp.op = "PUT"
    /\ resp.w.status = StatusTooManyRequests
    /\ Exists(Store, resp.id)
    /\ \E ip \in Addrs : visitors[ip].count = visitorCountLimit


\* C21: a write whose copy ended on a broken pipe is answered 206, also
\* when it is a streaming write whose success response was already flushed.
C21_PartialContent ==
    (resp.op = "PUT" /\ resp.done
        /\ \E i \in DOMAIN resp.w.body : resp.w.body[i] = StatusText(StatusPartialContent))
    => resp.w.status = StatusPartialContent


\* C22: under any interleaving of concurrent first requests the route table
\* is built once, s.routes is read and written only under the server mutex,
\* and all requests dispatch through that one table.
C22_BuiltOnce ==
    /\ routes.built <= 1
    /\ ~routes.bare
    /\ \A t \in Threads : routes.via[t] \in {0, 1}


\* C23: with a global count cap, the storage directory never holds more
\* content files than the cap, however writes and sweeps interleave.
C23_WithinCap ==
    config.ClipboardCountLimit > 0
    => Cardinality(Present) <= config.ClipboardCountLimit


\* C24: a write to an existing, writable entry that is rejected for its
\* mode or its TTL leaves the entry's content file, its metadata file and
\* the global count limiter as they were.
C24_RejectedKeeps ==
    \A r \in Writes :
        (files[r.id].kind = "file" /\ metas[r.id].mode = modeReadWrite
            /\ visitors[r.ip].count < visitorCountLimit
            /\ (getFileMode(r) = "" \/ getTTL(r) < 0))
        => LET out == handleClipboardPut(Behind(r), now, r)
           IN  /\ out.w.status = StatusBadRequest
               /\ out.st.files[r.id] = files[r.id]
               /\ out.st.metas[r.id] = metas[r.id]
               /\ out.st.count = countLimiter


\* C25: a rightly signed credential with timestamp T and ttl L (the default
\* window when L is 0) is accepted only at times within [T, T + L]; one
\* stamped in the future is not accepted before T.
C25_ReplayWindow ==
    (auth.pc = "done" /\ config.Key # NoKey /\ Presented(auth.r).scheme = "HMAC"
        /\ auth.err = 0)
    => LET m == Presented(auth.r)
       IN  /\ m.timestamp * Second <= auth.at
           /\ auth.at <= m.timestamp * Second + MaxAge(m.ttlSecs)

====
